---- MODULE Spec2Model ----
(***************************************************************************)
(* ADB USB tethering app (lxpanic.py): device discovery, authorization     *)
(* probe, enable/disable command pipelines and the host interface probe,   *)
(* run by the UI message loop and by the 5-second refresh timer.           *)
(*                                                                         *)
(* Text (bridge output, serials) is a sequence of one-character strings.   *)
(* The bridge output is held as the sequence of its lines, i.e. the value  *)
(* of output.splitlines().                                                 *)
(***************************************************************************)
EXTENDS Integers, Sequences, FiniteSets, TLC

VARIABLES
    DEVICE_SERIAL,      \* module global: the selected serial ("" = <<>>)
    configured,         \* the value DEVICE_SERIAL was given in the script
    adb_status,         \* reactive: connection status tag
    device_info,        \* reactive: [tag, serials]
    adb_ready,          \* reactive: BOOLEAN
    linux_iface_status, \* reactive: [state, name, ip]
    pc,                 \* per task: the external command it is awaiting
    interface_name,     \* per task: local of get_linux_interface_status
    device,             \* settings of the device addressed by -s DEVICE_SERIAL
    calls,              \* bridge commands issued by the running pipeline, in order
    outcomes,           \* the results run_adb_command returned for them
    notice,             \* what on_button_pressed did in the latest step ("none"
                        \* when the latest step was not a button press)
    usbAtEnable,        \* USB function the device had when the last fully
                        \* successful enable pipeline began ("none" otherwise)
    stdout,             \* lines of the last `adb devices` output (SpecDiscovery)
    got,                \* what the latest step was handed from outside: the
                        \* button pressed, the exception raised, the result
                        \* of the authorization probe, the link listing, the
                        \* addresses ([kind |-> "none"] otherwise)
    env,                \* SpecSettled: the external state, fixed for the run
    last                \* SpecSettled: the results of the refreshes that have
                        \* completed, the latest two of them

vars == <<DEVICE_SERIAL, configured, adb_status, device_info, adb_ready,
          linux_iface_status, pc, interface_name, device, calls, outcomes,
          notice, usbAtEnable, stdout, got, env, last>>

(***************************************************************************)
(* Bounds                                                                  *)
(***************************************************************************)
\* longest device list (lines after the header) `adb devices` prints
MaxLines == 3
\* the same, for the runs of the whole app (Spec)
AppLines == 2

(***************************************************************************)
(* Text                                                                    *)
(***************************************************************************)
TAB == "\t"
NoText == << >>

\* Python `sub in s` on strings
Contains(s, sub) ==
    \E i \in 1..(Len(s) - Len(sub) + 1) : SubSeq(s, i, i + Len(sub) - 1) = sub

\* Python `line.split('\t')[0]`
SplitTab0(line) ==
    LET tabs == {i \in 1..Len(line) : line[i] = TAB}
    IN  IF tabs = {} THEN line
        ELSE SubSeq(line, 1, (CHOOSE i \in tabs : \A j \in tabs : i <= j) - 1)

DEVICE_WORD == <<"d","e","v","i","c","e">>
HEADER_TEXT == <<"L","i","s","t"," ","o","f"," ","d","e","v","i","c","e","s",
                 " ","a","t","t","a","c","h","e","d">>
OFFLINE_WORD == <<"o","f","f","l","i","n","e">>

\* serials the bridge may list; the last one contains the word "device"
SerialA == <<"A","1">>
SerialB == <<"B","2">>
SerialD == <<"m","y","d","e","v","i","c","e">>
Serials == {SerialA, SerialB, SerialD}

\* a line of the listing: <serial>\t<state>
Line(serial, state) == serial \o <<TAB>> \o state
Lines == { Line(SerialA, DEVICE_WORD), Line(SerialB, DEVICE_WORD),
           Line(SerialD, DEVICE_WORD),
           Line(SerialA, OFFLINE_WORD), Line(SerialD, OFFLINE_WORD) }

RECURSIVE SeqsUpTo(_, _)
SeqsUpTo(S, n) ==
    IF n = 0 THEN {<< >>}
    ELSE LET shorter == SeqsUpTo(S, n - 1)
         IN  shorter \cup {Append(q, x) : q \in {r \in shorter : Len(r) = n - 1}, x \in S}

\* what output.splitlines() can be: the header, then up to n device lines
Outputs(n) == {<<HEADER_TEXT>> \o ls : ls \in SeqsUpTo(Lines, n)}

(***************************************************************************)
(* check_adb_connection: parsing and serial resolution                     *)
(***************************************************************************)
\* the filter of the list comprehension, line 179
IsListed(line) ==
    Contains(line, DEVICE_WORD) /\ ~Contains(line, HEADER_TEXT)

\* devices = [line.split('\t')[0] for line in output.splitlines() if ...]
RECURSIVE ParseDevices(_)
ParseDevices(lines) ==
    IF lines = << >> THEN << >>
    ELSE IF IsListed(Head(lines))
         THEN <<SplitTab0(Head(lines))>> \o ParseDevices(Tail(lines))
         ELSE ParseDevices(Tail(lines))

InList(x, list) == \E i \in 1..Len(list) : list[i] = x

\* Resolve with a silent fallback: a set serial that is not listed is replaced
\* by the first listed device
ResolveFallback(serial, devices) ==
    IF devices = << >>
    THEN [branch |-> "none", serial |-> serial]
    ELSE IF Len(devices) > 1 /\ serial = NoText
    THEN [branch |-> "multiple", serial |-> serial]
    ELSE IF serial = NoText \/ ~InList(serial, devices)
    THEN [branch |-> "probe", serial |-> devices[1]]
    ELSE [branch |-> "probe", serial |-> serial]

\* Resolve that drops a set serial it does not find in the list
ResolveForget(serial, devices) ==
    IF devices = << >>
    THEN [branch |-> "none", serial |-> serial]
    ELSE IF Len(devices) > 1 /\ serial = NoText
    THEN [branch |-> "multiple", serial |-> serial]
    ELSE IF serial = NoText
    THEN [branch |-> "probe", serial |-> devices[1]]
    ELSE IF ~InList(serial, devices)
    THEN [branch |-> "notfound", serial |-> NoText]
    ELSE [branch |-> "probe", serial |-> serial]

\* the if / elif / else of lines 181-199: which branch runs for the parsed
\* devices and the current DEVICE_SERIAL, and the DEVICE_SERIAL it leaves
Resolve(serial, devices) ==
    IF devices = << >>
    THEN [branch |-> "none", serial |-> serial]
    ELSE IF Len(devices) > 1 /\ serial = NoText
    THEN [branch |-> "multiple", serial |-> serial]
    ELSE IF serial = NoText
    THEN [branch |-> "probe", serial |-> devices[1]]
    ELSE IF ~InList(serial, devices)
    THEN [branch |-> "notfound", serial |-> serial]
    ELSE [branch |-> "probe", serial |-> serial]

NA == [tag |-> "N/A", serials |-> << >>]
Info(serial) == [tag |-> "serial", serials |-> <<serial>>]
PleaseSpecify(devices) == [tag |-> "specify", serials |-> devices]

Tasks == {"ui", "timer"}

\* the task's refresh is over: the timer sleeps until its next tick, the UI
\* handler returns to the message loop
Rest(t) == IF t = "timer" THEN "sleep" ELSE "idle"

(***************************************************************************)
(* Status values                                                           *)
(***************************************************************************)
UnknownIface == [state |-> "Unknown", name |-> NoText, ip |-> NoText]
Exceptions == {"FileNotFoundError", "Exception"}

(***************************************************************************)
(* The device                                                              *)
(***************************************************************************)
DefaultUsb == "mtp,adb"
DefaultDevice ==
    [tether_dun_required |-> "1", usb |-> DefaultUsb, tether_offload_disabled |-> "0"]

\* the argument lists handed to run_adb_command, by call site
CmdRoot == <<"root">>
CmdDun0 == <<"shell", "settings", "put", "global", "tether_dun_required", "0">>
CmdRndis == <<"shell", "svc", "usb", "setFunctions", "rndis">>
CmdOffload1 == <<"shell", "settings", "put", "global", "tether_offload_disabled", "1">>
CmdOffload0 == <<"shell", "settings", "put", "global", "tether_offload_disabled", "0">>
CmdDun1 == <<"shell", "settings", "put", "global", "tether_dun_required", "1">>
\* the restore command with the debug bridge function left out
CmdMtpOnly == <<"shell", "svc", "usb", "setFunctions", "mtp">>
CmdMtpAdb == <<"shell", "svc", "usb", "setFunctions", "mtp,adb">>
PipelineCmds == {CmdRoot, CmdDun0, CmdRndis, CmdOffload1, CmdOffload0, CmdDun1, CmdMtpAdb}

\* what a bridge command that exits 0 does to the device's settings
Effect(cmd, dev) ==
    IF Len(cmd) = 6 /\ cmd[2] = "settings" /\ cmd[3] = "put"
    THEN IF cmd[5] = "tether_dun_required"
         THEN [dev EXCEPT !.tether_dun_required = cmd[6]]
         ELSE [dev EXCEPT !.tether_offload_disabled = cmd[6]]
    ELSE IF Len(cmd) = 5 /\ cmd[4] = "setFunctions"
    THEN [dev EXCEPT !.usb = cmd[5]]
    ELSE dev

\* how a child process of run_adb_command can end
RunResults == {"exit0", "nonzero", "FileNotFoundError", "Exception"}

\* run_adb_command's return value
run_adb_command(result) == result = "exit0"

(***************************************************************************)
(* Initial state                                                           *)
(***************************************************************************)
\* what a step was handed from outside
Input(kind, val) == [kind |-> kind, val |-> val]
NoInput == Input("none", NoText)
NoEnv == << >>

InitWith(serial) ==
    /\ got = NoInput
    /\ last = << >>
    /\ configured = serial
    /\ DEVICE_SERIAL = serial
    /\ adb_status = "Unknown"
    /\ device_info = NA
    /\ adb_ready = FALSE
    /\ linux_iface_status = UnknownIface
    /\ pc = [t \in Tasks |-> IF t = "ui" THEN "mount" ELSE "off"]
    /\ interface_name = [t \in Tasks |-> NoText]
    /\ device = DefaultDevice
    /\ calls = << >>
    /\ outcomes = << >>
    /\ notice = "none"
    /\ usbAtEnable = "none"
    /\ stdout = << >>

\* DEVICE_SERIAL = "" as the script ships
Init == InitWith(NoText) /\ env = NoEnv

(***************************************************************************)
(* action_refresh_status, check_adb_connection                             *)
(***************************************************************************)
\* a frame: what the status-refresh steps leave alone
PipelineState == <<device, calls, outcomes, usbAtEnable>>

\* action_refresh_status up to its first await: `adb devices` is spawned
StartRefresh(t) == pc' = [pc EXCEPT ![t] = "adb devices"]

\* a refresh that ends with check_adb_connection
StartProbeSkipped(t) == pc' = [pc EXCEPT ![t] = Rest(t)]

\* check_adb_connection has returned: get_linux_interface_status spawns `ip link show`
StartProbe(t) == pc' = [pc EXCEPT ![t] = "ip link show"]

\* on_mount: starts the 5-second timer and awaits the first refresh
on_mount ==
    /\ pc["ui"] = "mount"
    /\ pc' = [ui |-> "adb devices", timer |-> "sleep"]
    /\ UNCHANGED <<DEVICE_SERIAL, configured, adb_status, device_info, adb_ready,
                   linux_iface_status, interface_name, PipelineState, stdout>>

\* the timer set by set_interval(5, ...) fires: its task calls action_refresh_status
TimerTick ==
    /\ pc["timer"] = "sleep"
    /\ StartRefresh("timer")
    /\ UNCHANGED <<DEVICE_SERIAL, configured, adb_status, device_info, adb_ready,
                   linux_iface_status, interface_name, PipelineState, stdout>>

\* key binding "r": the message loop runs action_refresh_status
KeyRefresh ==
    /\ pc["ui"] = "idle"
    /\ StartRefresh("ui")
    /\ UNCHANGED <<DEVICE_SERIAL, configured, adb_status, device_info, adb_ready,
                   linux_iface_status, interface_name, PipelineState, stdout>>

\* `adb devices` has ended and its output parsed to devices: lines 181-206
DevicesReturn(t, devices) ==
    /\ pc[t] = "adb devices"
    /\ LET r == Resolve(DEVICE_SERIAL, devices)
       IN  /\ DEVICE_SERIAL' = r.serial
           /\ IF r.branch = "none"
              THEN /\ adb_status' = "Disconnected"
                   /\ device_info' = NA
                   /\ adb_ready' = FALSE
                   /\ StartProbe(t)
              ELSE IF r.branch = "multiple"
              THEN /\ adb_status' = "Multiple Devices"
                   /\ device_info' = PleaseSpecify(devices)
                   /\ adb_ready' = FALSE
                   /\ StartProbe(t)
              ELSE IF r.branch = "notfound"
              THEN /\ adb_status' = "Specified Device Not Found"
                   /\ device_info' = Info(DEVICE_SERIAL)
                   /\ adb_ready' = FALSE
                   /\ StartProbe(t)
              ELSE /\ pc' = [pc EXCEPT ![t] = "adb shell echo test"]
                   /\ UNCHANGED <<adb_status, device_info, adb_ready>>
    /\ UNCHANGED <<configured, linux_iface_status, interface_name, PipelineState>>

\* an external command of check_adb_connection could not be spawned: lines 218-227
AdbRaise(t, exc) ==
    /\ pc[t] \in {"adb devices", "adb shell echo test"}
    /\ adb_status' = IF exc = "FileNotFoundError"
                     THEN "ERROR: ADB command not found" ELSE "Connection Error"
    /\ device_info' = NA
    /\ adb_ready' = FALSE
    /\ StartProbe(t)
    /\ stdout' = << >>
    /\ UNCHANGED <<DEVICE_SERIAL, configured, linux_iface_status, interface_name,
                   PipelineState>>

UNAUTHORIZED_MARKER == <<"d","e","v","i","c","e"," ","u","n","a","u","t","h","o","r","i","z","e","d">>
\* what the probe can write to stderr: nothing, the bridge's unauthorized
\* error, another error
Stderrs == { NoText,
             <<"e","r","r","o","r",":"," ">> \o UNAUTHORIZED_MARKER \o <<".">>,
             <<"e","r","r","o","r",":"," ","c","l","o","s","e","d">> }
ProbeResults == [returncode : {0, 1}, stderr : Stderrs]

\* the authorization probe has ended: lines 207-216
\* the probe's answer checked for a marker adb does not print
UnauthorizedOtherMarker(stderr) ==
    Contains(stderr, <<"d","e","v","i","c","e"," ","n","o","t"," ",
                       "a","u","t","h","o","r","i","z","e","d">>)

\* line 208: b"device unauthorized" in stderr
Unauthorized(stderr) == Contains(stderr, UNAUTHORIZED_MARKER)

AuthReturn(t, probe) ==
    /\ pc[t] = "adb shell echo test"
    /\ IF Unauthorized(probe.stderr)
       THEN /\ adb_status' = "Auth Failed"
            /\ adb_ready' = FALSE
       ELSE /\ adb_status' = "Connected"
            /\ adb_ready' = TRUE
    /\ device_info' = Info(DEVICE_SERIAL)
    /\ StartProbe(t)
    /\ stdout' = << >>
    /\ UNCHANGED <<DEVICE_SERIAL, configured, linux_iface_status, interface_name,
                   PipelineState>>

(***************************************************************************)
(* get_linux_interface_status                                              *)
(***************************************************************************)
Digits == {"0","1","2","3","4","5","6","7","8","9"}
IsDigits(s) == Len(s) >= 1 /\ \A i \in 1..Len(s) : s[i] \in Digits
StartsWith(s, p) == Len(s) >= Len(p) /\ SubSeq(s, 1, Len(p)) = p
Rest_(s, n) == SubSeq(s, n + 1, Len(s))

\* the name group of the pattern: usb\d+ | rndis\d+ | enp\S+u\d+
NameMatches(name) ==
    \/ StartsWith(name, <<"u","s","b">>) /\ IsDigits(Rest_(name, 3))
    \/ StartsWith(name, <<"r","n","d","i","s">>) /\ IsDigits(Rest_(name, 5))
    \/ /\ StartsWith(name, <<"e","n","p">>)
       /\ \E k \in 5..Len(name) :
            /\ name[k] = "u"
            /\ \A i \in 4..(k - 1) : name[i] \notin {" ", TAB}
            /\ IsDigits(Rest_(name, k))

FLAGS_WANTED == <<"BROADCAST", ",", "MULTICAST", ",", "UP">>
\* <.*BROADCAST,MULTICAST,UP.*> : the flag list holds the three in a row
FlagsMatch(flags) == Contains(flags, FLAGS_WANTED)

\* a line "N: name: <flags> ..." of `ip link show`; flags are held as the
\* sequence of the words and commas between < and >
Link(name, flags) == [name |-> name, flags |-> flags]
usb0 == <<"u","s","b","0">>
rndis0 == <<"r","n","d","i","s","0">>
eth0 == <<"e","t","h","0">>
LinkLines ==
    { Link(usb0, <<"BROADCAST", ",", "MULTICAST", ",", "UP", ",", "LOWER_UP">>),
      Link(usb0, <<"BROADCAST", ",", "MULTICAST">>),
      Link(eth0, <<"BROADCAST", ",", "MULTICAST", ",", "UP", ",", "LOWER_UP">>) }
LinkOutputs == { << >> } \cup {<<l>> : l \in LinkLines}
\* the inet addresses `ip -4 addr show dev <name>` prints, in order
AddrOutputs == { << >>, <<"192.168.42.1">> }

\* re.search over the link listing: the first line that matches, or none
RECURSIVE FirstMatch(_)
FirstMatch(links) ==
    IF links = << >> THEN NoText
    ELSE IF NameMatches(Head(links).name) /\ FlagsMatch(Head(links).flags)
         THEN Head(links).name
         ELSE FirstMatch(Tail(links))

\* the refresh of task t is over; a UI handler returns to the message loop
\* and its pipeline record goes with it
FinishRefresh(t) ==
    /\ pc' = [pc EXCEPT ![t] = Rest(t)]
    /\ IF t = "ui"
       THEN /\ calls' = << >>
            /\ outcomes' = << >>
            /\ usbAtEnable' = IF calls # << >> /\ calls[1] # CmdRoot
                              THEN "none" ELSE usbAtEnable
       ELSE UNCHANGED <<calls, outcomes, usbAtEnable>>

\* `ip link show` has ended with this listing: lines 238-249, 260-262
IpLinkReturn(t, links) ==
    /\ pc[t] = "ip link show"
    /\ LET name == FirstMatch(links)
       IN  IF name # NoText
           THEN /\ interface_name' = [interface_name EXCEPT ![t] = name]
                /\ pc' = [pc EXCEPT ![t] = "ip addr show"]
                /\ UNCHANGED <<linux_iface_status, calls, outcomes, usbAtEnable>>
           ELSE /\ linux_iface_status' =
                       [state |-> "Not Detected", name |-> NoText, ip |-> NoText]
                /\ FinishRefresh(t)
                /\ UNCHANGED interface_name
    /\ stdout' = << >>
    /\ UNCHANGED <<DEVICE_SERIAL, configured, adb_status, device_info, adb_ready,
                   device>>

\* `ip -4 addr show dev <name>` has ended: lines 250-259
IpAddrReturn(t, addrs) ==
    /\ pc[t] = "ip addr show"
    /\ linux_iface_status' =
          IF addrs # << >>
          THEN [state |-> "Detected", name |-> interface_name[t], ip |-> addrs[1]]
          ELSE [state |-> "No IP", name |-> interface_name[t], ip |-> NoText]
    /\ interface_name' = [interface_name EXCEPT ![t] = NoText]
    /\ FinishRefresh(t)
    /\ stdout' = << >>
    /\ UNCHANGED <<DEVICE_SERIAL, configured, adb_status, device_info, adb_ready,
                   device>>

\* an external command of get_linux_interface_status could not be spawned:
\* lines 264-269
IpRaise(t, exc) ==
    /\ pc[t] \in {"ip link show", "ip addr show"}
    /\ linux_iface_status' =
          [state |-> IF exc = "FileNotFoundError"
                     THEN "ERROR: 'ip' missing" ELSE "Error Checking",
           name |-> NoText, ip |-> NoText]
    /\ interface_name' = [interface_name EXCEPT ![t] = NoText]
    /\ FinishRefresh(t)
    /\ stdout' = << >>
    /\ UNCHANGED <<DEVICE_SERIAL, configured, adb_status, device_info, adb_ready,
                   device>>

(***************************************************************************)
(* on_button_pressed: the enable and disable pipelines                     *)
(***************************************************************************)
Buttons == {"enable-btn", "disable-btn", "refresh-btn"}
Last(q) == q[Len(q)]
NoCmd == << >>

\* the entry check without its adb_ready half
GateSerialOnly(serial, ready) == serial # NoText

\* the entry check of lines 275-277 lets the handler go on
Gate(serial, ready) == serial # NoText /\ ready

\* call sites that go on whatever the step returned, and one that undoes the
\* step before it when its own step fails
AfterDun0Always(success) == CmdRndis
AfterOffload0Always(success) == CmdDun1
AfterRndisRollback(success) == IF success THEN CmdOffload1 ELSE CmdDun1

\* the command each call site issues next, given the success of the one
\* that has just returned; NoCmd: the pipeline is over
AfterRoot(success) == CmdDun0
AfterDun0(success) == IF success THEN CmdRndis ELSE NoCmd
AfterRndis(success) == IF success THEN CmdOffload1 ELSE NoCmd
AfterOffload1(success) == NoCmd
AfterOffload0(success) == IF success THEN CmdDun1 ELSE NoCmd
AfterDun1(success) == IF success THEN CmdMtpAdb ELSE NoCmd
AfterMtpAdb(success) == NoCmd

\* the first command of the pipeline behind a button
FirstCmd(id) == IF id = "enable-btn" THEN CmdRoot ELSE CmdOffload0

on_button_pressed(id) ==
    /\ pc["ui"] = "idle"
    /\ IF ~Gate(DEVICE_SERIAL, adb_ready)
       THEN /\ notice' = "not ready"
            /\ UNCHANGED <<pc, calls, outcomes, usbAtEnable>>
       ELSE IF id = "refresh-btn"
       THEN /\ StartRefresh("ui")
            /\ notice' = "refresh"
            /\ UNCHANGED <<calls, outcomes, usbAtEnable>>
       ELSE /\ pc' = [pc EXCEPT !["ui"] = "run_adb_command"]
            /\ calls' = <<FirstCmd(id)>>
            /\ outcomes' = << >>
            /\ notice' = id
            /\ usbAtEnable' = IF id = "enable-btn" THEN device.usb ELSE usbAtEnable
    /\ UNCHANGED <<DEVICE_SERIAL, configured, adb_status, device_info, adb_ready,
                   linux_iface_status, interface_name, device, stdout>>

\* a handler that refreshes only after a step that succeeded
AfterPipelineOnSuccess(success) == IF success THEN "adb devices" ELSE "idle"

\* lines 290, 302: whatever the last step returned, the handler goes on to
\* action_refresh_status, whose first command is `adb devices`
AfterPipeline(success) == "adb devices"

\* the child process of the run_adb_command call for cmd has ended with
\* result; next is the command the handler issues then (NoCmd: it goes on
\* to action_refresh_status)
StepReturn(cmd, result, next) ==
    /\ pc["ui"] = "run_adb_command"
    /\ Last(calls) = cmd
    /\ LET success == run_adb_command(result)
       IN  /\ device' = IF success THEN Effect(cmd, device) ELSE device
           /\ outcomes' = Append(outcomes, success)
           /\ usbAtEnable' = IF ~success /\ calls[1] = CmdRoot
                             THEN "none" ELSE usbAtEnable
    /\ IF next = NoCmd
       THEN pc' = [pc EXCEPT !["ui"] = AfterPipeline(run_adb_command(result))]
            /\ UNCHANGED calls
       ELSE calls' = Append(calls, next) /\ UNCHANGED pc
    /\ UNCHANGED <<DEVICE_SERIAL, configured, adb_status, device_info, adb_ready,
                   linux_iface_status, interface_name, stdout>>

\* lines 282-288
EnableRoot(result) == StepReturn(CmdRoot, result, AfterRoot(run_adb_command(result)))
EnableDun(result) == StepReturn(CmdDun0, result, AfterDun0(run_adb_command(result)))
EnableUsb(result) == StepReturn(CmdRndis, result, AfterRndis(run_adb_command(result)))
EnableOffload(result) ==
    StepReturn(CmdOffload1, result, AfterOffload1(run_adb_command(result)))
\* lines 296-300
DisableOffload(result) ==
    StepReturn(CmdOffload0, result, AfterOffload0(run_adb_command(result)))
DisableDun(result) == StepReturn(CmdDun1, result, AfterDun1(run_adb_command(result)))
DisableUsb(result) == StepReturn(CmdMtpAdb, result, AfterMtpAdb(run_adb_command(result)))

(***************************************************************************)
(* The app: message loop and timer task                                    *)
(***************************************************************************)
Press == \E id \in Buttons : on_button_pressed(id) /\ got' = Input("press", id)
\* the device lists line 179 makes of the outputs of up to AppLines lines
AppDeviceLists == {ParseDevices(output) : output \in Outputs(AppLines)}
Devices ==
    \E t \in Tasks, devices \in AppDeviceLists :
        DevicesReturn(t, devices) /\ stdout' = << >>
AdbFails ==
    \E t \in Tasks, exc \in Exceptions : AdbRaise(t, exc) /\ got' = Input("raise", exc)
Auth ==
    \E t \in Tasks, probe \in ProbeResults :
        AuthReturn(t, probe) /\ got' = Input("probe", probe)
IpLink == \E t \in Tasks, links \in LinkOutputs : IpLinkReturn(t, links)
IpAddr == \E t \in Tasks, addrs \in AddrOutputs : IpAddrReturn(t, addrs)
IpFails ==
    \E t \in Tasks, exc \in Exceptions : IpRaise(t, exc) /\ got' = Input("raise", exc)
Step ==
    \E result \in RunResults :
        \/ EnableRoot(result)
        \/ EnableDun(result)
        \/ EnableUsb(result)
        \/ EnableOffload(result)
        \/ DisableOffload(result)
        \/ DisableDun(result)
        \/ DisableUsb(result)

\* a step that is no button press
Other(A) == A /\ notice' = "none" /\ UNCHANGED <<env, last>>
\* a step whose input is not recorded
Quiet(A) == A /\ got' = NoInput

Next ==
    \/ Other(Quiet(on_mount))
    \/ Other(Quiet(TimerTick))
    \/ Other(Quiet(KeyRefresh))
    \/ Press /\ UNCHANGED <<env, last>>
    \/ Other(Quiet(Devices))
    \/ Other(AdbFails)
    \/ Other(Auth)
    \/ Other(Quiet(IpLink))
    \/ Other(Quiet(IpAddr))
    \/ Other(IpFails)
    \/ Other(Quiet(Step))

Spec == Init /\ [][Next]_vars

(***************************************************************************)
(* Refreshes run one after the other by the message loop (key "r"), with   *)
(* the script's DEVICE_SERIAL set or empty; the bridge output of each      *)
(* refresh is held in stdout for one step                                  *)
(***************************************************************************)
InitDiscovery == \E serial \in {NoText} \cup Serials : InitWith(serial) /\ env = NoEnv

\* the outputs of up to MaxLines lines, each with the devices line 179 makes of it
UiOutputs == Outputs(MaxLines)
UiDevices == [output \in UiOutputs |-> ParseDevices(output)]
DevicesUi ==
    \E output \in UiOutputs :
        DevicesReturn("ui", UiDevices[output]) /\ stdout' = output
AdbFailsUi == \E exc \in Exceptions : AdbRaise("ui", exc) /\ got' = Input("raise", exc)
AuthUi ==
    \E probe \in ProbeResults : AuthReturn("ui", probe) /\ got' = Input("probe", probe)
IpLinkUi == \E links \in LinkOutputs : IpLinkReturn("ui", links)
IpAddrUi == \E addrs \in AddrOutputs : IpAddrReturn("ui", addrs)
IpFailsUi == \E exc \in Exceptions : IpRaise("ui", exc) /\ got' = Input("raise", exc)

NextDiscovery ==
    \/ Other(Quiet(on_mount))
    \/ Other(Quiet(KeyRefresh))
    \/ Other(Quiet(DevicesUi))
    \/ Other(AdbFailsUi)
    \/ Other(AuthUi)
    \/ Other(Quiet(IpLinkUi))
    \/ Other(Quiet(IpAddrUi))
    \/ Other(IpFailsUi)

SpecDiscovery == InitDiscovery /\ [][NextDiscovery]_vars

(***************************************************************************)
(* The host interface probe alone: refreshes run one after the other with  *)
(* no device on the bridge, over link listings of up to MaxLinks lines and *)
(* up to two addresses; the listing and the addresses are held in got for  *)
(* one step                                                                *)
(***************************************************************************)
\* longest link listing `ip link show` prints
MaxLinks == 2

enp0s20u1 == <<"e","n","p","0","s","2","0","u","1">>
enp3s0 == <<"e","n","p","3","s","0">>
\* ip prints the flags in a fixed order, with NOARP, ALLMULTI, PROMISC, ...
\* between MULTICAST and UP when the link has them
ProbeLinkLines ==
    LinkLines \cup
    { Link(rndis0, <<"BROADCAST", ",", "MULTICAST", ",", "UP", ",", "LOWER_UP">>),
      Link(enp0s20u1, <<"BROADCAST", ",", "MULTICAST", ",", "UP", ",", "LOWER_UP">>),
      Link(enp3s0, <<"BROADCAST", ",", "MULTICAST", ",", "UP", ",", "LOWER_UP">>),
      Link(usb0, <<"BROADCAST", ",", "MULTICAST", ",", "PROMISC", ",", "UP", ",",
                   "LOWER_UP">>) }
ProbeLinkOutputs == SeqsUpTo(ProbeLinkLines, MaxLinks)
ProbeAddrOutputs ==
    AddrOutputs \cup { <<"192.168.42.1", "10.0.0.2">>, <<"10.0.0.2", "192.168.42.1">> }

DevicesNone == DevicesReturn("ui", << >>) /\ stdout' = << >>
IpLinkProbe ==
    \E links \in ProbeLinkOutputs :
        IpLinkReturn("ui", links) /\ got' = Input("links", links)
IpAddrProbe ==
    \E addrs \in ProbeAddrOutputs :
        IpAddrReturn("ui", addrs) /\ got' = Input("addrs", addrs)

NextProbe ==
    \/ Other(Quiet(on_mount))
    \/ Other(Quiet(KeyRefresh))
    \/ Other(Quiet(DevicesNone))
    \/ Other(IpLinkProbe)
    \/ Other(IpAddrProbe)
    \/ Other(IpFailsUi)

SpecProbe == Init /\ [][NextProbe]_vars

(***************************************************************************)
(* Refreshes run one after the other by the message loop while nothing     *)
(* outside changes: every external command ends the same way each time it  *)
(* is run (env); last holds the results of the latest two refreshes        *)
(***************************************************************************)
\* how an external command ends: with output val, or raising exc
Outcomes(vals, blank) ==
    {[exc |-> "none", val |-> v] : v \in vals}
        \cup {[exc |-> e, val |-> blank] : e \in Exceptions}

Envs ==
    [ adb : Outcomes(AppDeviceLists, << >>),
      probe : Outcomes(ProbeResults, [returncode |-> 0, stderr |-> NoText]),
      link : Outcomes(LinkOutputs, << >>),
      addr : Outcomes(AddrOutputs, << >>) ]

InitSettled ==
    \E serial \in {NoText} \cup Serials, e \in Envs : InitWith(serial) /\ env = e

\* what a refresh leaves on the screen
Results == <<adb_status, device_info, adb_ready, linux_iface_status>>
Latest2(q) == IF Len(q) > 2 THEN Tail(q) ELSE q

\* a step of the message loop; when it ends a refresh, the results are noted
Settled(A) ==
    /\ A
    /\ notice' = "none"
    /\ got' = NoInput
    /\ env' = env
    /\ last' = IF pc["ui"] # "idle" /\ pc'["ui"] = "idle"
               THEN Latest2(Append(last, Results'))
               ELSE last

DevicesEnv ==
    /\ env.adb.exc = "none"
    /\ DevicesReturn("ui", env.adb.val)
    /\ stdout' = << >>
AdbFailsEnv ==
    LET cmd == IF pc["ui"] = "adb devices" THEN env.adb ELSE env.probe
    IN  cmd.exc # "none" /\ AdbRaise("ui", cmd.exc)
AuthEnv == env.probe.exc = "none" /\ AuthReturn("ui", env.probe.val)
IpLinkEnv == env.link.exc = "none" /\ IpLinkReturn("ui", env.link.val)
IpAddrEnv == env.addr.exc = "none" /\ IpAddrReturn("ui", env.addr.val)
IpFailsEnv ==
    LET cmd == IF pc["ui"] = "ip link show" THEN env.link ELSE env.addr
    IN  cmd.exc # "none" /\ IpRaise("ui", cmd.exc)

NextSettled ==
    \/ Settled(on_mount)
    \/ Settled(KeyRefresh)
    \/ Settled(DevicesEnv)
    \/ Settled(AdbFailsEnv)
    \/ Settled(AuthEnv)
    \/ Settled(IpLinkEnv)
    \/ Settled(IpAddrEnv)
    \/ Settled(IpFailsEnv)

SpecSettled == InitSettled /\ [][NextSettled]_vars

(***************************************************************************)
(* Properties                                                              *)
(***************************************************************************)
UiRunning == pc["ui"] = "run_adb_command"
IsEnable == calls # << >> /\ calls[1] = CmdRoot
IsDisable == calls # << >> /\ calls[1] = CmdOffload0
\* the pipeline of the running handler has issued its last command and had its result
PipelineOver == calls # << >> /\ ~UiRunning
IsPrefix(p, q) == Len(p) <= Len(q) /\ SubSeq(q, 1, Len(p)) = p
SetOf(q) == {q[i] : i \in 1..Len(q)}

\* C1: a device-mutating bridge command is issued only inside a pipeline
\* entered with adb_ready true and a non-empty DEVICE_SERIAL: a pipeline
\* starts only from the idle message loop with both observed, commands are
\* issued and device settings change only in a pipeline, and from a
\* not-ready session no step issues a command or changes a device setting.
C1_MutationOnlyWhenReady ==
    /\ [][ (pc'["ui"] = "run_adb_command" /\ ~UiRunning)
             => (pc["ui"] = "idle" /\ adb_ready /\ DEVICE_SERIAL # NoText) ]_vars
    /\ [][ (calls' # calls /\ calls' # << >>) => pc'["ui"] = "run_adb_command" ]_vars
    /\ [][ device' # device => UiRunning ]_vars
    /\ [][ (pc["ui"] = "idle" /\ ~(adb_ready /\ DEVICE_SERIAL # NoText))
             => (calls' = calls /\ device' = device
                 /\ pc'["ui"] # "run_adb_command") ]_vars

\* a button was pressed on a session with a serial but not ready, and was refused
C1_Witness ==
    /\ notice = "not ready"
    /\ ~adb_ready
    /\ DEVICE_SERIAL # NoText
    /\ calls = << >>
    /\ pc["ui"] = "idle"

\* the commands the enable pipeline must have issued for the results so far
ExpectedEnable(outs) ==
    <<CmdRoot, CmdDun0>>
      \o (IF Len(outs) >= 2 /\ outs[2]
          THEN <<CmdRndis>> \o (IF Len(outs) >= 3 /\ outs[3]
                                THEN <<CmdOffload1>> ELSE << >>)
          ELSE << >>)

\* C2: whatever the steps return, the enable pipeline issues root, then the
\* DUN step, then the USB switch iff the DUN step succeeded, then the offload
\* step iff the USB switch succeeded, and nothing else.
C2_EnableOrder ==
    IsEnable =>
        /\ IsPrefix(calls, ExpectedEnable(outcomes))
        /\ UiRunning => Len(calls) = Len(outcomes) + 1
        /\ PipelineOver =>
              /\ calls = ExpectedEnable(outcomes)
              /\ Len(outcomes) = Len(calls)

\* the enable pipeline is over, root and the DUN step failed, nothing followed
C2_Witness ==
    /\ PipelineOver
    /\ calls = <<CmdRoot, CmdDun0>>
    /\ outcomes = <<FALSE, FALSE>>

ExpectedDisable(outs) ==
    <<CmdOffload0>>
      \o (IF Len(outs) >= 1 /\ outs[1]
          THEN <<CmdDun1>> \o (IF Len(outs) >= 2 /\ outs[2]
                               THEN <<CmdMtpAdb>> ELSE << >>)
          ELSE << >>)

\* C3: the disable pipeline issues the offload reset, then the DUN restore,
\* then the USB restore to mtp,adb, each only if every step before it
\* succeeded; a failed step ends the pipeline.
C3_DisableOrder ==
    IsDisable =>
        /\ IsPrefix(calls, ExpectedDisable(outcomes))
        /\ UiRunning => Len(calls) = Len(outcomes) + 1
        /\ PipelineOver =>
              /\ calls = ExpectedDisable(outcomes)
              /\ Len(outcomes) = Len(calls)

\* the disable pipeline is over, halted by the failed DUN restore
C3_Witness ==
    /\ PipelineOver
    /\ calls = <<CmdOffload0, CmdDun1>>
    /\ outcomes = <<TRUE, FALSE>>

\* a disable pipeline has ended with every step successful, and the pipeline
\* before it was an enable pipeline with every step successful that began
\* with the device's USB function at its default
RoundTripDone ==
    /\ PipelineOver
    /\ calls = <<CmdOffload0, CmdDun1, CmdMtpAdb>>
    /\ outcomes = <<TRUE, TRUE, TRUE>>
    /\ usbAtEnable = DefaultUsb

\* C4: enable then disable, every step successful, from a device whose USB
\* function is mtp,adb leaves the USB function mtp,adb.
C4_RoundTrip == RoundTripDone => device.usb = DefaultUsb

C4_Witness == RoundTripDone /\ device.usb = "mtp,adb"

\* a step of the running pipeline has just returned
StepReturned == UiRunning /\ outcomes' # outcomes

\* C5: a failed step changes no device setting and, unless it is the root
\* attempt, is followed by no further command; a device setting changes
\* only by the effect of a step that succeeded; and the effect of every
\* step that succeeded is in place for the rest of the handler.
C5_NoRollback ==
    /\ [][ (StepReturned /\ ~Last(outcomes'))
             => /\ device' = device
                /\ Last(calls) # CmdRoot
                     => (calls' = calls /\ pc'["ui"] = "adb devices") ]_vars
    /\ [][ device' # device
             => (StepReturned /\ Last(outcomes')
                 /\ device' = Effect(Last(calls), device)) ]_vars
    /\ [](\A i \in 1..Len(outcomes) :
             outcomes[i] => Effect(calls[i], device) = device)

\* the enable pipeline was halted by the failed USB switch, and the DUN
\* setting written by the step before it is still in place
C5_Witness ==
    /\ PipelineOver
    /\ calls = <<CmdRoot, CmdDun0, CmdRndis>>
    /\ outcomes[2] /\ ~outcomes[3]
    /\ device.tether_dun_required = "0"
    /\ device.usb = DefaultUsb

\* --- the listing as the bridge means it: <serial>\t<state> ---
HasTab(line) == \E i \in 1..Len(line) : line[i] = TAB
\* the text after the first tab
StateField(line) == SubSeq(line, Len(SplitTab0(line)) + 2, Len(line))
InDeviceState(line) == HasTab(line) /\ Contains(StateField(line), DEVICE_WORD)

RECURSIVE DeviceStateSerials(_)
DeviceStateSerials(lines) ==
    IF lines = << >> THEN << >>
    ELSE IF InDeviceState(Head(lines))
         THEN <<SplitTab0(Head(lines))>> \o DeviceStateSerials(Tail(lines))
         ELSE DeviceStateSerials(Tail(lines))

\* this step is the message loop's check_adb_connection reading its output
ReadsOutput == pc["ui"] = "adb devices" /\ stdout' # << >>
ProbeIssued == pc'["ui"] = "adb shell echo test"

\* C6: a listing with no line in "device" state gives Disconnected, ready
\* false, no authorization probe and the same selected serial.
C6_NoneFound ==
    [][ (ReadsOutput /\ DeviceStateSerials(stdout') = << >>)
          => /\ adb_status' = "Disconnected"
             /\ ~adb_ready'
             /\ ~ProbeIssued
             /\ DEVICE_SERIAL' = DEVICE_SERIAL ]_vars

\* C7: a listing with two or more lines in "device" state, with no serial
\* selected, gives Multiple Devices naming exactly the serials of those
\* lines, ready false, no serial adopted and no authorization probe.
C7_Ambiguous ==
    [][ (ReadsOutput /\ DEVICE_SERIAL = NoText
         /\ Len(DeviceStateSerials(stdout')) >= 2)
          => /\ adb_status' = "Multiple Devices"
             /\ device_info'.tag = "specify"
             /\ SetOf(device_info'.serials) = SetOf(DeviceStateSerials(stdout'))
             /\ ~adb_ready'
             /\ ~ProbeIssued
             /\ DEVICE_SERIAL' = NoText ]_vars

\* C8: with a serial set and a listing with a line in "device" state but
\* none for that serial, the refresh gives Specified Device Not Found, ready
\* false, the same serial and no authorization probe.
C8_ConfiguredNotFound ==
    [][ (ReadsOutput /\ DEVICE_SERIAL # NoText
         /\ DeviceStateSerials(stdout') # << >>
         /\ ~InList(DEVICE_SERIAL, DeviceStateSerials(stdout')))
          => /\ adb_status' = "Specified Device Not Found"
             /\ ~adb_ready'
             /\ ~ProbeIssued
             /\ DEVICE_SERIAL' = DEVICE_SERIAL ]_vars

\* C9: in every refresh, when the script set no serial and the listing has
\* exactly one line in "device" state, that device is the selected serial
\* after the refresh has read the listing.
C9_AdoptSole ==
    [][ (ReadsOutput /\ configured = NoText
         /\ Len(DeviceStateSerials(stdout')) = 1)
          => DEVICE_SERIAL' = DeviceStateSerials(stdout')[1] ]_vars

\* C10: once DEVICE_SERIAL is non-empty no step changes it.
C10_SerialSticks ==
    [][ DEVICE_SERIAL # NoText => DEVICE_SERIAL' = DEVICE_SERIAL ]_vars

\* a serial was adopted and a later refresh, which did not find it among the
\* listed devices, left it selected
C10_Witness ==
    /\ configured = NoText
    /\ DEVICE_SERIAL # NoText
    /\ adb_status = "Specified Device Not Found"

\* the marker as adb prints it on the probe's stderr
HasMarker(stderr) ==
    Contains(stderr, <<"d","e","v","i","c","e"," ",
                       "u","n","a","u","t","h","o","r","i","z","e","d">>)

\* C11: an authorization probe whose stderr holds "device unauthorized"
\* leaves adb_ready false with the status Auth Failed; adb_ready turns true
\* again only when a probe returns without the marker; and while it is false
\* a button pressed on the idle message loop issues no command and changes
\* no device setting.
C11_UnauthorizedNotReady ==
    /\ [][ (got'.kind = "probe" /\ HasMarker(got'.val.stderr))
             => (~adb_ready' /\ adb_status' = "Auth Failed") ]_vars
    /\ [][ (~adb_ready /\ adb_ready')
             => (got'.kind = "probe" /\ ~HasMarker(got'.val.stderr)) ]_vars
    /\ [][ (pc["ui"] = "idle" /\ ~adb_ready)
             => (pc'["ui"] # "run_adb_command" /\ calls' = calls
                 /\ device' = device) ]_vars

\* after a probe that met the marker, the enable button was pressed and refused
C11_Witness ==
    /\ adb_status = "Auth Failed"
    /\ ~adb_ready
    /\ got.kind = "press"
    /\ got.val = "enable-btn"
    /\ notice = "not ready"
    /\ calls = << >>
    /\ device = DefaultDevice

\* the flag list names each of BROADCAST, MULTICAST and UP
FlagsInclude(flags) == {"BROADCAST", "MULTICAST", "UP"} \subseteq SetOf(flags)

\* the first listed link with a tethering name and these flags, or none
RECURSIVE FirstTetherLink(_)
FirstTetherLink(links) ==
    IF links = << >> THEN NoText
    ELSE IF NameMatches(Head(links).name) /\ FlagsInclude(Head(links).flags)
         THEN Head(links).name
         ELSE FirstTetherLink(Tail(links))

IpAwaited == pc["ui"] \in {"ip link show", "ip addr show"}

\* C12: the host interface probe selects the first listed link with a
\* tethering name (usbN, rndisN, enp...uN) whose flags include BROADCAST,
\* MULTICAST and UP; with no such link the status is Not Detected; a
\* selected link without an address gives No IP, one with addresses gives
\* Detected with the link's name and its first address; a missing `ip` gives
\* the error status and not Not Detected.
C12_ProbeClassifies ==
    /\ [][ got'.kind = "links"
             => LET name == FirstTetherLink(got'.val)
                IN  IF name = NoText
                    THEN /\ linux_iface_status'.state = "Not Detected"
                         /\ pc'["ui"] = "idle"
                    ELSE /\ pc'["ui"] = "ip addr show"
                         /\ interface_name'["ui"] = name ]_vars
    /\ [][ got'.kind = "addrs"
             => linux_iface_status' =
                  IF got'.val = << >>
                  THEN [state |-> "No IP", name |-> interface_name["ui"],
                        ip |-> NoText]
                  ELSE [state |-> "Detected", name |-> interface_name["ui"],
                        ip |-> got'.val[1]] ]_vars
    /\ [][ (IpAwaited /\ got'.kind = "raise" /\ got'.val = "FileNotFoundError")
             => linux_iface_status'.state = "ERROR: 'ip' missing" ]_vars

\* C13: two refreshes run one after the other while nothing outside changes
\* (same bridge listing, same answer of the authorization probe, same links
\* and addresses) leave the same status, device info, ready flag and
\* interface status.
C13_RefreshIdempotent == Len(last) = 2 => last[1] = last[2]

\* a second refresh has ended on a session whose first refresh adopted the
\* only listed device and found it authorized and its link up with an address
C13_Witness ==
    /\ Len(last) = 2
    /\ pc["ui"] = "idle"
    /\ configured = NoText
    /\ DEVICE_SERIAL # NoText
    /\ adb_ready
    /\ linux_iface_status.state = "Detected"

RefreshAwaited(t) ==
    pc[t] \in {"adb devices", "adb shell echo test", "ip link show", "ip addr show"}

\* C14: every enable or disable pipeline, run to its end or halted by a
\* failed step, is followed by a refresh inside the same handler: the step
\* in which the last issued command returns starts the refresh, no command
\* is issued after that, and the handler returns to the message loop only
\* out of that refresh's interface probe.
C14_RefreshFollows ==
    /\ [][ (UiRunning /\ pc'["ui"] # "run_adb_command")
             => pc'["ui"] = "adb devices" ]_vars
    /\ [](PipelineOver => RefreshAwaited("ui"))
    /\ [][ PipelineOver => (calls' = calls \/ pc'["ui"] = "idle") ]_vars
    /\ [][ (calls # << >> /\ pc'["ui"] = "idle")
             => pc["ui"] \in {"ip link show", "ip addr show"} ]_vars

\* the enable pipeline was halted by its second command and the handler has
\* started the refresh
C14_Witness ==
    /\ calls = <<CmdRoot, CmdDun0>>
    /\ Len(outcomes) = 2
    /\ ~outcomes[2]
    /\ pc["ui"] = "adb devices"

\* task t is inside a refresh or inside a pipeline, awaiting an external command
InFlight(t) == RefreshAwaited(t) \/ (t = "ui" /\ UiRunning)

\* C15: at most one of refresh, enable pipeline and disable pipeline is in
\* flight at any time: the timer's refresh is never awaiting an external
\* command while a handler of the message loop is awaiting one in a refresh
\* or between the first and last step of a pipeline.
C15_OneInFlight == ~(InFlight("ui") /\ InFlight("timer"))

\* C16: only a line whose state field (the text after the tab) holds
\* "device" counts as an attached device: when a refresh reads the bridge
\* output, the serials it reports as the devices to choose from, the serial
\* it adopts and the serial it sends the authorization probe to (the only
\* way to adb_ready true) are serials of such lines.
C16_StateFieldDecides ==
    [][ ReadsOutput
          => LET attached == SetOf(DeviceStateSerials(stdout'))
             IN  /\ (pc'["ui"] = "ip link show" /\ device_info'.tag = "specify")
                       => SetOf(device_info'.serials) \subseteq attached
                 /\ DEVICE_SERIAL' # DEVICE_SERIAL => DEVICE_SERIAL' \in attached
                 /\ ProbeIssued => DEVICE_SERIAL' \in attached ]_vars

\* C17: the ambiguous verdict is not kept: when the refresh before ended
\* with Multiple Devices and no serial selected, a refresh whose listing
\* has exactly one line in "device" state adopts that serial and sends it
\* the authorization probe, and a probe that returns without the marker
\* sets adb_ready true.
C17_AmbiguityNotCached ==
    /\ [][ (ReadsOutput /\ adb_status = "Multiple Devices"
            /\ DEVICE_SERIAL = NoText
            /\ Len(DeviceStateSerials(stdout')) = 1)
             => (DEVICE_SERIAL' = DeviceStateSerials(stdout')[1]
                 /\ ProbeIssued) ]_vars
    /\ [][ (pc["ui"] = "adb shell echo test" /\ got'.kind = "probe"
            /\ ~HasMarker(got'.val.stderr))
             => (adb_ready' /\ adb_status' = "Connected") ]_vars

AdbAwaited(t) == pc[t] \in {"adb devices", "adb shell echo test"}
IpAwaitedBy(t) == pc[t] \in {"ip link show", "ip addr show"}

\* C18: no error of an external command ends a refresh early or ends the
\* process: when adb is missing or cannot be spawned, in discovery or in
\* the authorization probe, the refresh sets adb_ready false and an error
\* status and goes on to the interface probe; a refresh leaves
\* check_adb_connection only for the interface probe, and the interface
\* probe, also when `ip` fails, sets the interface status and hands the
\* task back to its loop.
C18_ErrorsDoNotEndRefresh ==
    /\ [][ \A t \in Tasks :
             (AdbAwaited(t) /\ pc'[t] # pc[t] /\ got'.kind = "raise")
               => /\ ~adb_ready'
                  /\ adb_status' = IF got'.val = "FileNotFoundError"
                                   THEN "ERROR: ADB command not found"
                                   ELSE "Connection Error"
                  /\ pc'[t] = "ip link show" ]_vars
    /\ [][ \A t \in Tasks :
             (AdbAwaited(t) /\ pc'[t] # pc[t])
               => pc'[t] \in {"adb shell echo test", "ip link show"} ]_vars
    /\ [][ \A t \in Tasks :
             (IpAwaitedBy(t) /\ pc'[t] # pc[t] /\ pc'[t] # "ip addr show")
               => /\ pc'[t] = Rest(t)
                  /\ linux_iface_status'.state # "Unknown"
                  /\ got'.kind = "raise"
                       => linux_iface_status'.state
                            = IF got'.val = "FileNotFoundError"
                              THEN "ERROR: 'ip' missing"
                              ELSE "Error Checking" ]_vars

\* adb was not found, and the interface probe of that refresh has run and
\* reported the link and its address
C18_Witness ==
    /\ adb_status = "ERROR: ADB command not found"
    /\ ~adb_ready
    /\ linux_iface_status.state = "Detected"
    /\ pc["ui"] = "idle"
    /\ pc["timer"] = "sleep"

\* C19: a refresh sets adb_ready true only when the authorization probe has
\* exited with code 0 and its stderr lacks the marker; a probe that exits
\* nonzero never leaves adb_ready true.
C19_ReadyNeedsCleanExit ==
    [][ (got'.kind = "probe" /\ adb_ready')
          => (got'.val.returncode = 0 /\ ~HasMarker(got'.val.stderr)) ]_vars

\* the refresh button was pressed on the idle message loop
RefreshPressed == pc["ui"] = "idle" /\ got'.kind = "press" /\ got'.val = "refresh-btn"

\* C20: adb_ready and the selected serial gate the enable and disable
\* pipelines only: the key binding and the refresh button start a refresh
\* (discovery, then the interface probe) whenever the message loop is idle,
\* also when adb_ready is false or no serial is selected.
C20_RefreshNotGated ==
    /\ [][ RefreshPressed => pc'["ui"] = "adb devices" ]_vars
    /\ [](pc["ui"] = "idle" => ENABLED KeyRefresh)
    /\ [][ \A t \in Tasks :
             (AdbAwaited(t) /\ pc'[t] # pc[t])
               => pc'[t] \in {"adb shell echo test", "ip link show"} ]_vars

====
